---- MODULE Spec2Model ----
(***************************************************************************)
(* Omni-Channel-Bot: webhook ingestion and verification pipeline, reply    *)
(* pipeline and token cache of the Connexease AI agent.                    *)
(*                                                                         *)
(* Two deployments of the same pipeline are modelled:                      *)
(*   "assist"    src/connexease-ai-agent/index.js (agent-assist dashboard, *)
(*               shared-secret signature, conversation store, broadcast)   *)
(*   "autoreply" src/unnamed/part_001 (diagnostic dashboard, HMAC          *)
(*               signature over channel.uuid, automatic reply)             *)
(*                                                                         *)
(* JS strings are sequences of tokens (a token is an indivisible piece of  *)
(* text, a comma or a blank), so that split(',') and trim() are computed.  *)
(***************************************************************************)
EXTENDS Integers, Sequences, FiniteSets, TLC

\* ------------------------------------------------------------ JS values

\* JS undefined / null: a missing header, field or environment variable.
Undefined == <<"<undefined>">>

\* A one-token string.
Str(t) == <<t>>

\* JS truthiness of a string-or-undefined value: '' and undefined are falsy.
Truthy(v) == v # Undefined /\ v # <<>>

\* a || b
Or(a, b) == IF Truthy(a) THEN a ELSE b

IsBlank(t) == t = " "

RECURSIVE TrimLeft(_)
TrimLeft(s) == IF s # <<>> /\ IsBlank(Head(s)) THEN TrimLeft(Tail(s)) ELSE s

RECURSIVE TrimRight(_)
TrimRight(s) ==
    IF s # <<>> /\ IsBlank(s[Len(s)]) THEN TrimRight(SubSeq(s, 1, Len(s) - 1)) ELSE s

\* String.prototype.trim
Trim(s) == TrimRight(TrimLeft(s))

\* s.split(',')[0]: the text before the first comma (all of s when it has none).
RECURSIVE SplitFirst(_)
SplitFirst(s) ==
    IF s = <<>> \/ Head(s) = "," THEN <<>> ELSE <<Head(s)>> \o SplitFirst(Tail(s))

\* ------------------------------------------------------------ IP allowlist

\* const allowedIp = '34.89.215.92'
allowedIp == Str("34.89.215.92")

OtherIp == Str("10.0.0.7")

\* req.headers['x-forwarded-for'] || req.socket.remoteAddress
ClientIpString(r) == Or(r.xff, r.remoteAddress)

\* clientIpString.split(',')[0].trim()
FirstIp(r) == Trim(SplitFirst(ClientIpString(r)))

\* if (firstIp === allowedIp)
IpAllowed(r) == FirstIp(r) = allowedIp

\* ------------------------------------------------------------ signatures

\* HMAC-SHA256 reduced to a two-bit digest: a deterministic keyed function of
\* the key and the message; distinct (key, message) pairs may collide.
Code(s) == CASE s = Str("k1") -> 1 [] s = Str("k2") -> 2
             [] s = Str("u1") -> 1 [] s = Str("u2") -> 3 [] OTHER -> 0

HmacSha256(key, msg) == (Code(key) * 3 + Code(msg)) % 4

\* digest('base64') of the one-byte digests 0..3.
Base64(d) == Str(<<"AA==", "AQ==", "Ag==", "Aw==">>[d + 1])

\* Base64 decoding ignores the unused trailing bits of the last character:
\* 'AC==' ('C' is 'A' with one bit flipped) decodes to the same byte as 'AA=='.
Base64Decode(s) == CASE s = Str("AA==") -> 0 [] s = Str("AC==") -> 0
                     [] s = Str("AQ==") -> 1 [] s = Str("Ag==") -> 2
                     [] s = Str("Aw==") -> 3 [] OTHER -> -1

\* createHmac('sha256', secret).update(channelUuid, 'utf-8').digest('base64')
ExpectedSignature(secret, channelUuid) == Base64(HmacSha256(secret, channelUuid))

\* A mutant: the signatures are compared after decoding.
SignatureDecodedEqual(signature, expectedSignature) ==
    Base64Decode(signature) = Base64Decode(expectedSignature)

\* part_001: signature !== expectedSignature, negated.
SignatureMatches(signature, expectedSignature) == signature = expectedSignature

\* A mutant: an absent header is let through.
SecretMatchesOrMissing(signature, secret) == signature = secret \/ ~Truthy(signature)

\* index.js: signature !== secret, negated.
SecretMatches(signature, secret) == signature = secret

\* A mutant: the signed value is read from payload.channel.uuid.
HmacVerdictPayloadPath(r, secret) ==
    IF ~Truthy(r.sign) THEN "missing"
    ELSE IF ~Truthy(r.body.payloadChannelUuid) THEN "badPayload"
    ELSE IF secret = Undefined THEN "throw"
    ELSE IF ~SignatureMatches(r.sign,
                              ExpectedSignature(secret, r.body.payloadChannelUuid))
         THEN "mismatch"
    ELSE "next"

\* A mutant: the channel uuid is looked at before the signature header.
HmacVerdictUuidFirst(r, secret) ==
    IF ~Truthy(r.body.channelUuid) THEN "badPayload"
    ELSE IF ~Truthy(r.sign) THEN "missing"
    ELSE IF secret = Undefined THEN "throw"
    ELSE IF ~SignatureMatches(r.sign, ExpectedSignature(secret, r.body.channelUuid))
         THEN "mismatch"
    ELSE "next"

\* part_001 verifyConnexeaseSignature, lines 63-95: what the middleware decides.
\* (createHmac throws a TypeError when the secret is undefined.)
HmacVerdict(r, secret) ==
    IF ~Truthy(r.sign) THEN "missing"
    ELSE IF ~Truthy(r.body.channelUuid) THEN "badPayload"
    ELSE IF secret = Undefined THEN "throw"
    ELSE IF ~SignatureMatches(r.sign, ExpectedSignature(secret, r.body.channelUuid))
         THEN "mismatch"
    ELSE "next"

\* index.js verifyConnexeaseSignature, lines 452-461.
SharedVerdict(r, secret) == IF ~SecretMatches(r.sign, secret) THEN "mismatch" ELSE "next"

\* The HTTP status each verdict answers with (0: next() is called, no answer).
VerdictStatus(v) == CASE v = "next" -> 0
                      [] v = "missing" -> 403
                      [] v = "badPayload" -> 400
                      [] v = "mismatch" -> 403
                      [] v = "throw" -> 500

\* The signature_ok text part_001 writes to receivedMessages[0] for a verdict
\* ("IP OK" was written just before and stays when createHmac throws).
VerdictLabel(v) == CASE v = "missing" -> "FAILED (Missing)"
                     [] v = "badPayload" -> "FAILED (Bad Payload)"
                     [] v = "mismatch" -> "FAILED (Mismatch)"
                     [] OTHER -> "IP OK"

\* ------------------------------------------------------------ requests

Variants == {"assist", "autoreply"}

\* process.env.CONNEXEASE_WEBHOOK_SECRET: unset, or one of two secrets.
Secrets == {Undefined, Str("k1"), Str("k2")}

XffValues == { Undefined, <<>>, allowedIp, OtherIp,
               OtherIp \o <<",", " ">> \o allowedIp,
               <<" ">> \o allowedIp \o <<",">> \o OtherIp }

RemoteAddresses == { allowedIp, Str("::ffff:34.89.215.92") }

SignValues == { Undefined, <<>>, Str("k1"), Str("k2"),
                Str("AA=="), Str("AQ=="), Str("Ag=="), Str("Aw=="), Str("AC==") }

ChannelUuids == { Undefined, Str("u1"), Str("u2") }

Hooks == { "message.created", "conversation.created", "conversation.updated" }

\* A white-space-only text.
Blank == <<" ", " ">>

\* A body with no payload member.  channelUuid: body.channel?.uuid;
\* payloadChannelUuid: body.payload?.channel?.uuid.
NoPayload(hook, uuid) ==
    [hook |-> hook, channelUuid |-> uuid, payloadChannelUuid |-> Undefined,
     hasPayload |-> FALSE,
     customer |-> Undefined, agent |-> Undefined, content |-> Undefined,
     conversation_uuid |-> Undefined, conversationId |-> Undefined,
     uuid |-> Undefined, msgContent |-> Undefined, msgCustomer |-> Undefined]

\* payload of a message.created event.
MessageBodies(uuid) ==
    { [NoPayload("message.created", uuid) EXCEPT
         !.hasPayload = TRUE, !.customer = c, !.agent = a, !.content = t,
         !.conversation_uuid = k[1], !.conversationId = k[2]] :
      c \in {Undefined, Str("Ada")}, a \in {Undefined, Str("Bot")},
      t \in {Undefined, <<>>, Blank, Str("Hello")},
      k \in { <<Str("c1"), Undefined>>, <<Undefined, Str("c1")>> } }

\* payload of a conversation.created event (payload.messages is one object).
ConversationBodies(uuid) ==
    { [NoPayload("conversation.created", uuid) EXCEPT
         !.hasPayload = TRUE, !.uuid = Str("c2"), !.msgContent = t, !.msgCustomer = c] :
      t \in {Undefined, <<>>, Blank, Str("Hi")}, c \in {Undefined, Str("Ada")} }

\* A payload of another hook, without fields.
UpdatedBody(uuid) == [NoPayload("conversation.updated", uuid) EXCEPT !.hasPayload = TRUE]

\* Payloads of another hook: without fields, and with the fields of a
\* customer message.
OtherBodies(uuid) ==
    { UpdatedBody(uuid),
      [UpdatedBody(uuid) EXCEPT
         !.customer = Str("Ada"), !.content = Str("Hello"),
         !.conversation_uuid = Str("c1"), !.uuid = Str("c2"),
         !.msgContent = Str("Hi"), !.msgCustomer = Str("Ada")] }

Bodies(uuid) ==
    MessageBodies(uuid) \cup ConversationBodies(uuid) \cup OtherBodies(uuid)
      \cup { NoPayload(h, uuid) : h \in Hooks }

\* A well-formed customer message.
HelloBody(uuid) ==
    [NoPayload("message.created", uuid) EXCEPT
       !.hasPayload = TRUE, !.customer = Str("Ada"), !.content = Str("Hello"),
       !.conversation_uuid = Str("c1")]

\* The bodies sent along when the headers are varied.
ProbeBodies(uuid) ==
    { HelloBody(uuid), NoPayload("message.created", uuid),
      NoPayload("conversation.updated", uuid) }

\* The signature header the platform sends for a body under a configuration.
PlatformSign(v, key, b) ==
    IF v = "assist" THEN key ELSE ExpectedSignature(key, b.channelUuid)

\* Requests that vary the address: every forwarded-for chain and peer address,
\* with the platform's signature and with none.
AddressRequests(v, key) ==
    { [xff |-> x, remoteAddress |-> a, sign |-> s, body |-> b] :
      x \in XffValues, a \in RemoteAddresses,
      b \in ProbeBodies(Str("u1")),
      s \in {Undefined, PlatformSign(v, key, HelloBody(Str("u1")))} }

\* Requests from the allowed address that vary the signature header and the
\* channel uuid.
SignatureRequests ==
    { [xff |-> allowedIp, remoteAddress |-> Str("::ffff:34.89.215.92"),
       sign |-> s, body |-> b] :
      s \in SignValues, b \in UNION { ProbeBodies(u) : u \in ChannelUuids } }

\* Requests of the platform itself: allowed address, its signature, every body.
PlatformRequests(v, key) ==
    { [xff |-> allowedIp, remoteAddress |-> Str("::ffff:34.89.215.92"),
       sign |-> PlatformSign(v, key, b), body |-> b] : b \in Bodies(Str("u1")) }

\* Requests from the allowed address that carry a channel uuid in the body's
\* channel member, in its payload's channel member, in both or in neither,
\* with each value an HMAC signature can have.
ChannelPathRequests ==
    { [xff |-> allowedIp, remoteAddress |-> Str("::ffff:34.89.215.92"), sign |-> s,
       body |-> [HelloBody(top) EXCEPT !.payloadChannelUuid = inner]] :
      top \in { Undefined, Str("u1") },
      inner \in { Undefined, Str("u1"), Str("u2") },
      s \in { Str("AA=="), Str("AQ=="), Str("Ag=="), Str("Aw==") } }

\* "any" traffic: every request above.
AnyRequests(v, key) ==
    AddressRequests(v, key) \cup SignatureRequests \cup PlatformRequests(v, key)
      \cup ChannelPathRequests

\* A request from the allowed address with a given signature header and body.
Allowed(s, b) ==
    [xff |-> allowedIp, remoteAddress |-> Str("::ffff:34.89.215.92"),
     sign |-> s, body |-> b]

\* "platform" traffic: the platform's requests for a few events (two customer
\* messages of different conversations, an agent's message, another hook, a
\* body without payload) and three foreign requests (another address, no
\* signature header, a wrong signature header).
PlatformTraffic(v, key) ==
    LET u == Str("u1")
        hello == HelloBody(u)
        hi == [NoPayload("conversation.created", u) EXCEPT
                 !.hasPayload = TRUE, !.uuid = Str("c2"), !.msgContent = Str("Hi"),
                 !.msgCustomer = Str("Ada")]
        agent == [hello EXCEPT !.customer = Undefined, !.agent = Str("Bot")]
        sign == PlatformSign(v, key, hello)
    IN  { Allowed(sign, b) :
            b \in { hello, hi, agent, NoPayload("message.created", u) }
                    \cup { UpdatedBody(u) } }
        \cup { [Allowed(sign, hello) EXCEPT !.xff = OtherIp \o <<",">> \o allowedIp],
               Allowed(Undefined, hello),
               Allowed(Str("Aw=="), hello) }

\* "push" traffic: the platform's customer message.
PushTraffic(v, key) ==
    LET hello == HelloBody(Str("u1"))
    IN  { Allowed(PlatformSign(v, key, hello), hello) }

\* "log" traffic: requests that are rejected after the logger has run: a
\* customer message and another hook from a foreign address, and a customer
\* message from the allowed address without a signature header.
LogTraffic ==
    LET hello == HelloBody(Str("u1")) IN
    { [Allowed(Undefined, hello) EXCEPT !.xff = OtherIp],
      [Allowed(Undefined, UpdatedBody(Str("u1"))) EXCEPT !.xff = OtherIp],
      Allowed(Undefined, hello) }

Requests(t, v, key) ==
    IF t = "any" THEN AnyRequests(v, key)
    ELSE IF t = "push" THEN PushTraffic(v, key)
    ELSE IF t = "log" THEN LogTraffic
    ELSE PlatformTraffic(v, key)

NoReq == [xff |-> Undefined, remoteAddress |-> Undefined, sign |-> Undefined,
          body |-> NoPayload("", Undefined)]

\* ------------------------------------------------------------ state

\* The number of webhook requests delivered in one behaviour of "platform"
\* traffic, and of "any" traffic.
MaxRequests == 2

MaxProbes == 1

\* The number of webhook requests delivered in one behaviour of "push" traffic,
\* and the number of dashboard sockets that connect in it.
MaxPushRequests == 1

MaxClients == 2

\* receivedMessages keeps the last 50 entries (part_001 line 148).
MaxReceived == 50

\* The number of webhook requests delivered in one behaviour of "log" traffic
\* after the log has reached its limit.
MaxLogRequests == 2

Limit(t) ==
    IF t = "any" THEN MaxProbes
    ELSE IF t = "push" THEN MaxPushRequests
    ELSE IF t = "log" THEN MaxReceived + MaxLogRequests
    ELSE MaxRequests

\* let tokenExpiresAt = null
NullDate == -1

\* 23.5 * 60 * 60 * 1000 ms
TokenTtlMs == 84600000

VARIABLES
    traffic,            \* which requests are delivered: "platform" or "any"
    variant,            \* which deployment runs
    secret,             \* process.env.CONNEXEASE_WEBHOOK_SECRET
    req,                \* the request the middleware chain is working on
    rid,                \* its number (requests are numbered from 1)
    stage,              \* the middleware that runs next for it
    checks,             \* the middlewares that have run for it, in order
    res,                \* the statuses sent on its response, in order
    receivedMessages,   \* part_001: the diagnostic log, newest first
    conversations,      \* index.js: the conversation store (a Map, insertion order)
    broadcasts,         \* index.js: the frames handed to broadcast(), in order
    clients,            \* index.js: wss.clients, the dashboard sockets, in order
    knowledgeBase,      \* the cached knowledge-base text ('' until loaded)
    startup,            \* the listen callback's read of the knowledge base
    tasks,              \* the webhook handlers suspended at an await
    rejections,         \* requests whose handler promise rejected
    connexeaseToken,    \* the cached token
    tokenExpiresAt,     \* its expiry (ms), NullDate when null
    now,                \* the clock (ms)
    fetched,            \* <<time, token>> of the latest successful credential fetch
    ticks,              \* how often the clock was advanced
    calls               \* the getConnexeaseToken call of each caller

vars == << traffic, variant, secret, req, rid, stage, checks, res, receivedMessages,
           conversations, broadcasts, clients, knowledgeBase, startup, tasks,
           rejections, connexeaseToken, tokenExpiresAt, now, fetched, ticks, calls >>

configVars == << traffic, variant, secret >>
chainVars == << req, rid, stage, checks, res >>
storeVars == << conversations, broadcasts, clients >>
replyVars == << knowledgeBase, startup, tasks, rejections >>
tokenVars == << connexeaseToken, tokenExpiresAt, now, fetched, ticks >>

Callers == {"a", "b"}

\* A caller that is not inside getConnexeaseToken.  pc: where its call is;
\* result: what the call returned; hit: it returned the cached token without
\* a credential request; at: the time of the call.
IdleCall == [pc |-> "idle", result |-> Undefined, hit |-> FALSE, at |-> 0]

\* The process between two requests, n requests after its start, with the
\* given diagnostic log.
StartFrom(n, log) ==
    /\ variant \in Variants
    /\ secret \in Secrets
    /\ req = NoReq /\ rid = n /\ stage = "idle" /\ checks = <<>> /\ res = <<>>
    /\ receivedMessages = log
    /\ conversations = <<>>
    /\ broadcasts = <<>>
    /\ clients = <<>>
    /\ knowledgeBase = <<>>
    /\ startup = "reading"
    /\ tasks = {}
    /\ rejections = {}
    /\ connexeaseToken = Undefined
    /\ tokenExpiresAt = NullDate
    /\ now = 0
    /\ fetched = << NullDate, Undefined >>
    /\ ticks = 0
    /\ calls = [c \in Callers |-> IdleCall]

Start == StartFrom(0, <<>>)

Init == traffic = "platform" /\ Start

InitAny == traffic = "any" /\ Start

\* No middleware is running: the event loop takes the next callback.
Quiet == stage = "idle"

\* A mutant: the answer is sent twice.
SendTwice(code) == res' = res \o << code, code >>

\* res.status(code).send(...) for the current request.
Send(code) == res' = Append(res, code)

\* ------------------------------------------------------------ middleware chain

\* A POST /webhook request arrives and enters the chain of app.post('/webhook').
Arrive(r) ==
    /\ req' = r
    /\ rid' = rid + 1
    /\ checks' = <<>>
    /\ res' = <<>>
    /\ stage' = IF variant = "autoreply" THEN "log" ELSE "ip"
    /\ UNCHANGED << configVars, receivedMessages, storeVars, replyVars, tokenVars, calls >>

\* Any client may post any request while the event loop is free.
Receive ==
    /\ Quiet
    /\ rid < Limit(traffic)
    /\ \E r \in Requests(traffic, variant, secret) : Arrive(r)

\* The chain has returned to the event loop: the request object is dropped
\* (handlers suspended at an await keep their own reference to res).
Return ==
    /\ stage = "done"
    /\ stage' = "idle"
    /\ req' = NoReq /\ checks' = <<>> /\ res' = <<>>
    /\ UNCHANGED << configVars, rid, receivedMessages, storeVars, replyVars, tokenVars,
                    calls >>

\* The entry logMessageForDashboard makes for a body.
MessageData(b, n) ==
    [from |-> Or(Or(b.customer, b.msgCustomer), Str("Unknown")),
     content |-> Or(b.content, b.msgContent),
     signature_ok |-> "Pending",
     rid |-> n]

\* A mutant: a full log drops its newest entry for the new one.
UnshiftOverNewest(log, e) ==
    IF Len(log) + 1 > MaxReceived THEN <<e>> \o Tail(log) ELSE <<e>> \o log

\* receivedMessages.unshift(messageData); if (length > 50) pop()
Unshift(log, e) ==
    IF Len(log) + 1 > MaxReceived THEN SubSeq(<<e>> \o log, 1, Len(log)) ELSE <<e>> \o log

\* receivedMessages[0].signature_ok = label, when the log is not empty.
Mark(log, label) ==
    IF Len(log) > 0 THEN [log EXCEPT ![1].signature_ok = label] ELSE log

\* part_001 logMessageForDashboard: reading payload.content of a missing
\* payload throws, and Express answers 500 without running the next middleware.
LogMessageForDashboard ==
    /\ stage = "log"
    /\ checks' = Append(checks, "log")
    /\ IF req.body.hook \in {"message.created", "conversation.created"}
       THEN IF ~req.body.hasPayload
            THEN /\ Send(500)
                 /\ stage' = "done"
                 /\ UNCHANGED receivedMessages
            ELSE /\ receivedMessages' =
                       IF Truthy(Or(req.body.content, req.body.msgContent))
                       THEN Unshift(receivedMessages, MessageData(req.body, rid))
                       ELSE receivedMessages
                 /\ stage' = "ip"
                 /\ UNCHANGED res
       ELSE /\ stage' = "ip"
            /\ UNCHANGED << receivedMessages, res >>
    /\ UNCHANGED << configVars, req, rid, storeVars, replyVars, tokenVars, calls >>

\* A mutant: the 403 branch does not end the chain (next() is called anyway).
IpAllowlistFallsThrough ==
    /\ stage = "ip"
    /\ checks' = Append(checks, "ip")
    /\ IF IpAllowed(req) THEN UNCHANGED res ELSE Send(403)
    /\ stage' = "sig"
    /\ UNCHANGED << configVars, req, rid, receivedMessages, storeVars, replyVars,
                    tokenVars, calls >>

\* ipAllowlist
IpAllowlist ==
    /\ stage = "ip"
    /\ checks' = Append(checks, "ip")
    /\ IF IpAllowed(req)
       THEN /\ stage' = "sig"
            /\ UNCHANGED res
       ELSE /\ Send(403)
            /\ stage' = "done"
    /\ UNCHANGED << configVars, req, rid, receivedMessages, storeVars, replyVars,
                    tokenVars, calls >>

\* index.js verifyConnexeaseSignature (shared secret).
VerifySharedSecret ==
    /\ stage = "sig"
    /\ variant = "assist"
    /\ checks' = Append(checks, "sig")
    /\ LET v == SharedVerdict(req, secret) IN
       IF v = "next"
       THEN /\ stage' = "handler"
            /\ UNCHANGED res
       ELSE /\ Send(VerdictStatus(v))
            /\ stage' = "done"
    /\ UNCHANGED << configVars, req, rid, receivedMessages, storeVars, replyVars,
                    tokenVars, calls >>

\* part_001: the inline middleware of lines 201-206 ('IP OK') and the
\* verifyConnexeaseSignature it calls (HMAC over channel.uuid).
VerifyHmacSignature ==
    /\ stage = "sig"
    /\ variant = "autoreply"
    /\ checks' = Append(checks, "sig")
    /\ LET v == HmacVerdict(req, secret) IN
       /\ receivedMessages' = Mark(Mark(receivedMessages, "IP OK"), VerdictLabel(v))
       /\ IF v = "next"
          THEN /\ stage' = "handler"
               /\ UNCHANGED res
          ELSE /\ Send(VerdictStatus(v))
               /\ stage' = "done"
    /\ UNCHANGED << configVars, req, rid, storeVars, replyVars, tokenVars, calls >>

\* ------------------------------------------------------------ webhook handler

\* A mutant: the handler answers only after its awaits, so nothing is sent
\* before the reply pipeline starts.
HandlerAckDeferred ==
    /\ stage = "handler"
    /\ checks' = Append(checks, "handler")
    /\ receivedMessages' =
         IF variant = "autoreply" THEN Mark(receivedMessages, "Verified")
         ELSE receivedMessages
    /\ stage' = "body"
    /\ UNCHANGED << configVars, req, rid, res, storeVars, replyVars, tokenVars, calls >>

\* The handler's first statement: res.status(200).send('Event received')
\* (part_001 first marks the newest log entry verified).
HandlerAck ==
    /\ stage = "handler"
    /\ checks' = Append(checks, "handler")
    /\ Send(200)
    /\ receivedMessages' =
         IF variant = "autoreply" THEN Mark(receivedMessages, "Verified")
         ELSE receivedMessages
    /\ stage' = "body"
    /\ UNCHANGED << configVars, req, rid, storeVars, replyVars, tokenVars, calls >>

\* conversations.has(id)
HasConversation(store, id) == \E i \in 1..Len(store) : store[i].id = id

\* A mutant: the message is broadcast without being stored.
StoreMessageSkipped(store, id, customer, m) == store

\* A mutant: the newest message is put first.
StoreMessageNewestFirst(store, id, customer, m) ==
    IF HasConversation(store, id)
    THEN [i \in 1..Len(store) |->
            IF store[i].id = id
            THEN [store[i] EXCEPT !.messages = <<m>> \o @]
            ELSE store[i]]
    ELSE Append(store, [id |-> id, customer |-> customer, messages |-> <<m>>])

\* A mutant: a content the conversation already holds is not stored again.
StoreMessageOnce(store, id, customer, m) ==
    IF \E i \in 1..Len(store) :
          /\ store[i].id = id
          /\ \E j \in 1..Len(store[i].messages) : store[i].messages[j].content = m.content
    THEN store
    ELSE IF HasConversation(store, id)
    THEN [i \in 1..Len(store) |->
            IF store[i].id = id
            THEN [store[i] EXCEPT !.messages = Append(@, m)]
            ELSE store[i]]
    ELSE Append(store, [id |-> id, customer |-> customer, messages |-> <<m>>])

\* if (!conversations.has(id)) conversations.set(id, {...}); get(id).messages.push(m)
StoreMessage(store, id, customer, m) ==
    IF HasConversation(store, id)
    THEN [i \in 1..Len(store) |->
            IF store[i].id = id
            THEN [store[i] EXCEPT !.messages = Append(@, m)]
            ELSE store[i]]
    ELSE Append(store, [id |-> id, customer |-> customer, messages |-> <<m>>])

\* The handler suspended at the first await of getAIResponse(userMessage): the
\* knowledge base is read when it is still falsy, otherwise the provider
\* request is issued at once.  res: the statuses sent on its response object.
AwaitAI(n, id, text, sent) ==
    [rid |-> n, conversationId |-> id, text |-> text, token |-> Undefined,
     pc |-> IF Truthy(knowledgeBase) THEN "ai" ELSE "kb", res |-> sent]

\* A mutant: every hook is read like message.created.
AssistEventFlat(b) == << b.conversation_uuid, b.content >>

\* A mutant: the conversation id is read from payload.conversationId.
AssistEventByConversationId(b) ==
    IF b.hook = "message.created" THEN << b.conversationId, b.content >>
    ELSE << b.uuid, b.msgContent >>

\* What index.js normalizes a body to: <<conversationId, content>>.
AssistEvent(b) ==
    IF b.hook = "message.created" THEN << b.conversation_uuid, b.content >>
    ELSE << b.uuid, b.msgContent >>

\* A dashboard socket the server has accepted.  open: its readyState is OPEN;
\* since: the number of frames broadcast before it connected; inbox: the
\* numbers of the frames sent to it.
NewClient(n) == [open |-> TRUE, since |-> n, inbox |-> <<>>]

\* The sockets of wss.clients whose readyState is OPEN.
OpenClients(cl) == { i \in 1..Len(cl) : cl[i].open }

\* wss.clients after a forEach that sends frame n to the open sockets before
\* position k (all of them when k = 0).
SentBefore(cl, n, k) ==
    [i \in 1..Len(cl) |->
        IF cl[i].open /\ (k = 0 \/ i < k)
        THEN [cl[i] EXCEPT !.inbox = Append(@, n)]
        ELSE cl[i]]

\* A mutant: broadcasting to nobody raises.
BroadcastNeedsSubscriber(cl, n) ==
    IF OpenClients(cl) = {}
    THEN { [clients |-> cl, raised |-> TRUE] }
    ELSE { [clients |-> SentBefore(cl, n, 0), raised |-> FALSE] }
         \cup { [clients |-> SentBefore(cl, n, k), raised |-> TRUE] :
                  k \in OpenClients(cl) }

\* broadcast(data) for frame number n: the outcomes of
\* wss.clients.forEach(client => { if (client.readyState === WebSocket.OPEN)
\* client.send(...) }).  Every send succeeds, or the send to open socket k
\* throws: nothing catches it, forEach stops there and broadcast raises.
Broadcast(cl, n) ==
    { [clients |-> SentBefore(cl, n, 0), raised |-> FALSE] }
    \cup { [clients |-> SentBefore(cl, n, k), raised |-> TRUE] : k \in OpenClients(cl) }

\* index.js handler after the acknowledgement, up to its first await.
AssistBody ==
    /\ stage = "body"
    /\ variant = "assist"
    /\ stage' = "done"
    /\ LET b == req.body
           ev == AssistEvent(b)
           m == [sender |-> "customer", content |-> ev[2], rid |-> rid]
       IN
       IF b.hook \notin {"message.created", "conversation.created"}
       THEN UNCHANGED << storeVars, tasks, rejections >>
       ELSE IF ~b.hasPayload
       THEN \* payload.customer / payload.uuid of undefined: TypeError
            /\ rejections' = rejections \cup {rid}
            /\ UNCHANGED << storeVars, tasks >>
       ELSE IF b.hook = "message.created" /\ ~Truthy(b.customer)
       THEN UNCHANGED << storeVars, tasks, rejections >>
       ELSE IF ~Truthy(ev[2])
       THEN UNCHANGED << storeVars, tasks, rejections >>
       ELSE /\ conversations' =
                 StoreMessage(conversations, ev[1], Or(b.customer, b.msgCustomer), m)
            /\ broadcasts' = Append(broadcasts,
                 [type |-> "customerMessage", conversationId |-> ev[1],
                  text |-> ev[2], rid |-> rid])
            /\ \E o \in Broadcast(clients, Len(broadcasts) + 1) :
                 /\ clients' = o.clients
                 /\ IF o.raised
                    THEN \* line 563 is outside the try: the handler rejects
                         /\ rejections' = rejections \cup {rid}
                         /\ UNCHANGED tasks
                    ELSE /\ tasks' = tasks \cup {AwaitAI(rid, ev[1], ev[2], res)}
                         /\ UNCHANGED rejections
    /\ UNCHANGED << configVars, req, rid, checks, res, receivedMessages,
                    knowledgeBase, startup, tokenVars, calls >>

\* A mutant: a message is answered whether or not an agent wrote it.
AutoReplyEventAnyAuthor(b) ==
    IF b.hook = "message.created" /\ Truthy(b.customer)
    THEN << Truthy(b.content) /\ Trim(b.content) # <<>>, b.conversation_uuid, b.content >>
    ELSE IF b.hook = "conversation.created" /\ Truthy(b.msgContent)
    THEN << Trim(b.msgContent) # <<>>, b.uuid, b.msgContent >>
    ELSE << FALSE, Undefined, Undefined >>

\* A mutant: the hook type is not looked at.
AutoReplyEventAnyHook(b) ==
    IF Truthy(b.customer) /\ ~Truthy(b.agent)
    THEN << Truthy(b.content) /\ Trim(b.content) # <<>>, b.conversation_uuid, b.content >>
    ELSE IF Truthy(b.msgContent)
    THEN << Trim(b.msgContent) # <<>>, b.uuid, b.msgContent >>
    ELSE << FALSE, Undefined, Undefined >>

\* A mutant: a message is answered whether or not it has a customer.
AutoReplyEventAnySender(b) ==
    IF b.hook = "message.created" /\ ~Truthy(b.agent)
    THEN << Truthy(b.content) /\ Trim(b.content) # <<>>, b.conversation_uuid, b.content >>
    ELSE IF b.hook = "conversation.created" /\ Truthy(b.msgContent)
    THEN << Trim(b.msgContent) # <<>>, b.uuid, b.msgContent >>
    ELSE << FALSE, Undefined, Undefined >>

\* What part_001 replies to: <<answers, conversationId, userMessage>>.
AutoReplyEvent(b) ==
    IF b.hook = "message.created" /\ Truthy(b.customer) /\ ~Truthy(b.agent)
    THEN << Truthy(b.content) /\ Trim(b.content) # <<>>, b.conversation_uuid, b.content >>
    ELSE IF b.hook = "conversation.created" /\ Truthy(b.msgContent)
    THEN << Trim(b.msgContent) # <<>>, b.uuid, b.msgContent >>
    ELSE << FALSE, Undefined, Undefined >>

\* part_001 handler after the acknowledgement, up to its first await.
AutoReplyBody ==
    /\ stage = "body"
    /\ variant = "autoreply"
    /\ stage' = "done"
    /\ LET b == req.body
           ev == AutoReplyEvent(b)
       IN
       IF b.hook \in {"message.created", "conversation.created"} /\ ~b.hasPayload
       THEN \* payload.customer / payload.messages of undefined: TypeError
            /\ rejections' = rejections \cup {rid}
            /\ UNCHANGED tasks
       ELSE IF ev[1]
       THEN /\ tasks' = tasks \cup {AwaitAI(rid, ev[2], ev[3], res)}
            /\ UNCHANGED rejections
       ELSE UNCHANGED << tasks, rejections >>
    /\ UNCHANGED << configVars, req, rid, checks, res, receivedMessages,
                    storeVars, knowledgeBase, startup, tokenVars, calls >>

\* ------------------------------------------------------------ reply pipeline

KnowledgeTexts == { <<>>, Str("Dr. Ayse works Mondays") }

\* What the provider answers: a text, or an empty output.
AiOutputs == { <<>>, Str("Merhaba") }

\* index.js getAIResponse: the text returned for an empty output or a failure.
AssistFallback == Str("Musteri talebi icin ozel bir yanit hazirlanmasi gerekiyor.")

\* part_001 getAIResponse: the text returned when the provider call throws.
AutoReplyApology == Str("Uzgunum, talebinizi islerken bir sorun olustu.")

\* A mutant: the token is still used at the instant it expires.
TokenCachedAtExpiry(token, expiresAt, t) ==
    Truthy(token) /\ expiresAt # NullDate /\ t <= expiresAt

\* if (connexeaseToken && tokenExpiresAt && new Date() < tokenExpiresAt)
TokenCached(token, expiresAt, t) == Truthy(token) /\ expiresAt # NullDate /\ t < expiresAt

\* A mutant: the token lives 24 hours.
ExpiryAfterOneDay(t) == t + 24 * 60 * 60 * 1000

\* new Date(new Date().getTime() + 23.5 * 60 * 60 * 1000)
ExpiryFrom(t) == t + TokenTtlMs

\* The listen callback: knowledgeBase = await fs.readFile(...), or the catch.
StartupLoad ==
    /\ Quiet
    /\ startup = "reading"
    /\ \/ \E text \in KnowledgeTexts : knowledgeBase' = text /\ startup' = "loaded"
       \/ knowledgeBase' = knowledgeBase /\ startup' = "failed"
    /\ UNCHANGED << configVars, chainVars, receivedMessages, storeVars,
                    tasks, rejections, tokenVars, calls >>

\* getAIResponse resumes after fs.readFile: the text is cached and the provider
\* request is issued.
KnowledgeRead(t) ==
    /\ Quiet
    /\ t \in tasks /\ t.pc = "kb"
    /\ \E text \in KnowledgeTexts : knowledgeBase' = text
    /\ tasks' = (tasks \ {t}) \cup {[t EXCEPT !.pc = "ai"]}
    /\ UNCHANGED << configVars, chainVars, receivedMessages, storeVars,
                    startup, rejections, tokenVars, calls >>

\* fs.readFile rejects inside getAIResponse, outside its try: index.js catches
\* it in the handler (lines 574-586), part_001 lets the handler promise reject.
KnowledgeReadFailed(t) ==
    /\ Quiet
    /\ t \in tasks /\ t.pc = "kb"
    /\ tasks' = tasks \ {t}
    /\ rejections' = IF variant = "autoreply" THEN rejections \cup {t.rid} ELSE rejections
    /\ UNCHANGED << configVars, chainVars, receivedMessages, storeVars,
                    knowledgeBase, startup, tokenVars, calls >>

\* index.js: the suggestion getAIResponse returns for a provider outcome.
AssistSuggestion(ok, out) == IF ok THEN Or(out, AssistFallback) ELSE AssistFallback

\* index.js: the provider call settles and the suggestion is broadcast (inside
\* the try of lines 574-586, which catches and logs what broadcast raises).
AssistSuggest(t) ==
    /\ Quiet
    /\ variant = "assist"
    /\ t \in tasks /\ t.pc = "ai"
    /\ \E ok \in BOOLEAN, out \in AiOutputs :
         broadcasts' = Append(broadcasts,
            [type |-> "aiSuggestion", conversationId |-> t.conversationId,
             text |-> AssistSuggestion(ok, out), rid |-> t.rid])
    /\ \E o \in Broadcast(clients, Len(broadcasts) + 1) : clients' = o.clients
    /\ tasks' = tasks \ {t}
    /\ UNCHANGED << configVars, chainVars, receivedMessages, conversations,
                    knowledgeBase, startup, rejections, tokenVars, calls >>

\* part_001: the reply getAIResponse returns for a provider outcome.
AutoReplyText(ok, out) == IF ok THEN out ELSE AutoReplyApology

\* part_001: the provider call settles; sendConnexeaseReply asks for the token
\* and, with a cached one, issues the reply POST, else the credential request.
AutoReplySend(t) ==
    /\ Quiet
    /\ variant = "autoreply"
    /\ t \in tasks /\ t.pc = "ai"
    /\ \E ok \in BOOLEAN, out \in AiOutputs :
         LET text == AutoReplyText(ok, out) IN
         tasks' = (tasks \ {t}) \cup
            { IF TokenCached(connexeaseToken, tokenExpiresAt, now)
              THEN [t EXCEPT !.pc = "post", !.text = text, !.token = connexeaseToken]
              ELSE [t EXCEPT !.pc = "token", !.text = text] }
    /\ UNCHANGED << configVars, chainVars, receivedMessages, storeVars,
                    knowledgeBase, startup, rejections, tokenVars, calls >>

Tokens == { Str("jwt1"), Str("jwt2") }

\* part_001: the credential request of a suspended sendConnexeaseReply succeeds;
\* the token is cached and the reply POST is issued with it.
ReplyTokenFetched(t) ==
    /\ Quiet
    /\ t \in tasks /\ t.pc = "token"
    /\ \E token \in Tokens :
         /\ connexeaseToken' = token
         /\ tasks' = (tasks \ {t}) \cup {[t EXCEPT !.pc = "post", !.token = token]}
    /\ tokenExpiresAt' = ExpiryFrom(now)
    /\ fetched' = << now, connexeaseToken' >>
    /\ UNCHANGED << configVars, chainVars, receivedMessages, storeVars,
                    knowledgeBase, startup, rejections, now, ticks, calls >>

\* A mutant: sendConnexeaseReply posts although it got no token.
ReplyTokenFailedPosts(t) ==
    /\ Quiet
    /\ t \in tasks /\ t.pc = "token"
    /\ tasks' = (tasks \ {t}) \cup {[t EXCEPT !.pc = "post"]}
    /\ UNCHANGED << configVars, chainVars, receivedMessages, storeVars,
                    knowledgeBase, startup, rejections, tokenVars, calls >>

\* part_001: the credential request fails; getConnexeaseToken returns null and
\* sendConnexeaseReply returns without posting.
ReplyTokenFailed(t) ==
    /\ Quiet
    /\ t \in tasks /\ t.pc = "token"
    /\ tasks' = tasks \ {t}
    /\ UNCHANGED << configVars, chainVars, receivedMessages, storeVars,
                    knowledgeBase, startup, rejections, tokenVars, calls >>

\* part_001: the reply POST settles (its failure is caught and logged).
ReplySettled(t) ==
    /\ Quiet
    /\ t \in tasks /\ t.pc = "post"
    /\ tasks' = tasks \ {t}
    /\ UNCHANGED << configVars, chainVars, receivedMessages, storeVars,
                    knowledgeBase, startup, rejections, tokenVars, calls >>

\* ------------------------------------------------------------ token cache

\* The clock is advanced at most this often in one behaviour.
MaxTicks == 4

HalfHourMs == 30 * 60 * 1000

\* 1 ms, just under half an hour, half an hour, 23 hours.
Jumps == { 1, HalfHourMs - 1, HalfHourMs, 46 * HalfHourMs }

\* Time passes.
Tick ==
    /\ ticks < MaxTicks
    /\ ticks' = ticks + 1
    /\ \E d \in Jumps : now' = now + d
    /\ UNCHANGED << configVars, chainVars, receivedMessages, storeVars, replyVars,
                    connexeaseToken, tokenExpiresAt, fetched, calls >>

\* getConnexeaseToken up to its first await: a cached token that has not
\* expired is returned, otherwise the credential request is issued.
GetConnexeaseToken(c) ==
    /\ calls[c].pc = "idle"
    /\ calls' = [calls EXCEPT ![c] =
         IF TokenCached(connexeaseToken, tokenExpiresAt, now)
         THEN [pc |-> "returned", result |-> connexeaseToken, hit |-> TRUE, at |-> now]
         ELSE [pc |-> "fetching", result |-> Undefined, hit |-> FALSE, at |-> now]]
    /\ UNCHANGED << configVars, chainVars, receivedMessages, storeVars, replyVars,
                    tokenVars >>

\* The credential request succeeds: the token and its expiry are replaced.
CredentialFetched(c) ==
    /\ calls[c].pc = "fetching"
    /\ \E token \in Tokens :
         /\ connexeaseToken' = token
         /\ calls' = [calls EXCEPT ![c] = [@ EXCEPT !.pc = "returned", !.result = token]]
    /\ tokenExpiresAt' = ExpiryFrom(now)
    /\ fetched' = << now, connexeaseToken' >>
    /\ UNCHANGED << configVars, chainVars, receivedMessages, storeVars, replyVars,
                    now, ticks >>

\* A mutant: the catch block forgets the token and keeps its expiry.
TokenClearedAfterFailure(token, expiresAt) == << Undefined, expiresAt >>

\* A mutant: the catch block forgets the cached token.
ClearedAfterFailure(token, expiresAt) == << Undefined, NullDate >>

\* What the catch block of getConnexeaseToken leaves in the cache.
AfterFailure(token, expiresAt) == << token, expiresAt >>

\* The credential request fails: the catch block returns null.
CredentialFailed(c) ==
    /\ calls[c].pc = "fetching"
    /\ calls' = [calls EXCEPT ![c] = [@ EXCEPT !.pc = "returned", !.result = Undefined]]
    /\ connexeaseToken' = AfterFailure(connexeaseToken, tokenExpiresAt)[1]
    /\ tokenExpiresAt' = AfterFailure(connexeaseToken, tokenExpiresAt)[2]
    /\ UNCHANGED << configVars, chainVars, receivedMessages, storeVars, replyVars,
                    now, fetched, ticks >>

\* The caller has taken the result and may call again.
Resume(c) ==
    /\ calls[c].pc = "returned"
    /\ calls' = [calls EXCEPT ![c] = IdleCall]
    /\ UNCHANGED << configVars, chainVars, receivedMessages, storeVars, replyVars,
                    tokenVars >>

\* ------------------------------------------------------------ specification

Next ==
    \/ Receive
    \/ Return
    \/ LogMessageForDashboard
    \/ IpAllowlist
    \/ VerifySharedSecret
    \/ VerifyHmacSignature
    \/ HandlerAck
    \/ AssistBody
    \/ AutoReplyBody
    \/ StartupLoad
    \/ \E t \in tasks : KnowledgeRead(t)
    \/ \E t \in tasks : KnowledgeReadFailed(t)
    \/ \E t \in tasks : AssistSuggest(t)
    \/ \E t \in tasks : AutoReplySend(t)
    \/ \E t \in tasks : ReplyTokenFetched(t)
    \/ \E t \in tasks : ReplyTokenFailed(t)
    \/ \E t \in tasks : ReplySettled(t)

Spec == Init /\ [][Next]_vars

SpecAny == InitAny /\ [][Next]_vars

\* part_001 after n customer messages from a foreign address: each was logged
\* and answered 403, its entry left 'Pending'; the newest is first.
LoggedBefore(n) ==
    [i \in 1..n |->
       [from |-> Str("Ada"), content |-> Str("Hello"), signature_ok |-> "Pending",
        rid |-> n + 1 - i]]

\* The diagnostic log near its limit, under requests that are logged and
\* rejected.
InitLog ==
    /\ traffic = "log"
    /\ \E n \in (MaxReceived - 2)..MaxReceived : StartFrom(n, LoggedBefore(n))
    /\ variant = "autoreply" /\ secret = Str("k1")

NextLog ==
    \/ Receive
    \/ Return
    \/ LogMessageForDashboard
    \/ IpAllowlist
    \/ VerifyHmacSignature

SpecLog == InitLog /\ [][NextLog]_vars

\* What the scheduling guarantees: a middleware that was entered runs to its
\* end, a pending file read settles (with the text or with an error), and a
\* pending provider call returns or fails.  Nothing obliges a client to post.
Fairness ==
    /\ WF_vars(LogMessageForDashboard)
    /\ WF_vars(IpAllowlist)
    /\ WF_vars(VerifySharedSecret)
    /\ WF_vars(VerifyHmacSignature)
    /\ WF_vars(HandlerAck)
    /\ WF_vars(AssistBody)
    /\ WF_vars(AutoReplyBody)
    /\ WF_vars(Return)
    /\ WF_vars(StartupLoad)
    /\ WF_vars(\E t \in tasks : KnowledgeRead(t) \/ KnowledgeReadFailed(t))
    /\ WF_vars(\E t \in tasks : AssistSuggest(t))
    /\ WF_vars(\E t \in tasks : AutoReplySend(t))

SpecLive == Spec /\ Fairness

\* The token cache alone, under concurrent callers and a moving clock.
InitToken == traffic = "none" /\ Start /\ variant = "autoreply" /\ secret = Str("k1")

NextToken ==
    \/ Tick
    \/ \E c \in Callers : GetConnexeaseToken(c)
    \/ \E c \in Callers : CredentialFetched(c)
    \/ \E c \in Callers : CredentialFailed(c)
    \/ \E c \in Callers : Resume(c)

SpecToken == InitToken /\ [][NextToken]_vars

\* ------------------------------------------------------------ push channel

\* A mutant: a new socket is sent every frame broadcast so far.
ConnectWithBacklog(cl, n) ==
    Append(cl, [NewClient(n) EXCEPT !.inbox = [i \in 1..n |-> i]])

\* wss.clients after wss.on('connection'): the socket joins the set; the
\* callback logs and registers a 'close' logger, it sends nothing.
Connected(cl, n) == Append(cl, NewClient(n))

\* A dashboard opens a WebSocket.
Connect ==
    /\ Quiet
    /\ Len(clients) < MaxClients
    /\ clients' = Connected(clients, Len(broadcasts))
    /\ UNCHANGED << configVars, chainVars, receivedMessages, conversations, broadcasts,
                    replyVars, tokenVars, calls >>

\* A dashboard socket leaves readyState OPEN (closing or closed).
Disconnect(i) ==
    /\ Quiet
    /\ i \in OpenClients(clients)
    /\ clients' = [clients EXCEPT ![i].open = FALSE]
    /\ UNCHANGED << configVars, chainVars, receivedMessages, conversations, broadcasts,
                    replyVars, tokenVars, calls >>

\* A mutant: an unknown id is answered with an empty conversation.
ConversationQueryAlwaysFound(store, id) ==
    IF HasConversation(store, id)
    THEN [status |-> 200,
          messages |-> store[CHOOSE i \in 1..Len(store) : store[i].id = id].messages]
    ELSE [status |-> 200, messages |-> <<>>]

\* GET /api/conversations/:id: the conversation's messages, or 404.
ConversationQuery(store, id) ==
    IF HasConversation(store, id)
    THEN [status |-> 200,
          messages |-> store[CHOOSE i \in 1..Len(store) : store[i].id = id].messages]
    ELSE [status |-> 404, messages |-> <<>>]

\* The dashboard deployment with its push channel.
InitPush == traffic = "push" /\ Start /\ variant = "assist" /\ secret = Str("k1")

NextPush ==
    \/ Receive
    \/ Return
    \/ IpAllowlist
    \/ VerifySharedSecret
    \/ HandlerAck
    \/ AssistBody
    \/ StartupLoad
    \/ \E t \in tasks : KnowledgeRead(t)
    \/ \E t \in tasks : KnowledgeReadFailed(t)
    \/ \E t \in tasks : AssistSuggest(t)
    \/ Connect
    \/ \E i \in 1..MaxClients : Disconnect(i)

SpecPush == InitPush /\ [][NextPush]_vars

\* ------------------------------------------------------------ properties

\* The chain has finished with the current request.
Done == stage = "done"

\* ipAllowlist was entered for the current request.
IpChecked == \E i \in 1..Len(checks) : checks[i] = "ip"

\* verifyConnexeaseSignature was entered for the current request.
SignatureChecked == \E i \in 1..Len(checks) : checks[i] = "sig"

\* The handler of app.post('/webhook') was entered for the current request.
HandlerRan == \E i \in 1..Len(checks) : checks[i] = "handler"

\* C1: a request whose first forwarded-for entry (the peer address when the
\* header is missing) is not the allowed address is answered 403 and reaches
\* neither the signature check nor the handler, whatever its signature header.
\* Violated in part_001: logMessageForDashboard runs before ipAllowlist and
\* throws on a body without payload, so such a request is answered 500.
C1_ForeignAddressAnswered403 ==
    (Done /\ FirstIp(req) # allowedIp)
        => (res = <<403>> /\ ~HandlerRan /\ ~SignatureChecked)

\* C2: in the shared-secret scheme a request that passed the IP check reaches
\* the handler exactly when its signature header equals the secret; every
\* other one is answered 403 once and the handler does not run.
C2_SharedSecretIff ==
    (variant = "assist" /\ Done /\ SignatureChecked)
        => /\ HandlerRan <=> req.sign = secret
           /\ ~HandlerRan => res = <<403>>

C2_Witness ==
    /\ variant = "assist" /\ Done /\ HandlerRan
    /\ req.sign = Str("k1") /\ secret = Str("k1")

\* C3: in the HMAC scheme a request let through by the IP check is answered
\* 403 when the signature header is missing (also when the channel uuid is
\* missing too), 400 when the header is there and the channel uuid is missing,
\* 403 when both are there and the header is not the expected signature; the
\* handler does not run and no 200 is sent in any of the three cases.
C3_HmacRejections ==
    (variant = "autoreply" /\ Done /\ SignatureChecked)
        => LET noSign == req.sign \in {Undefined, <<>>}
               noUuid == req.body.channelUuid \in {Undefined, <<>>}
           IN  /\ noSign => (res = <<403>> /\ ~HandlerRan)
               /\ (~noSign /\ noUuid) => (res = <<400>> /\ ~HandlerRan)
               /\ (~noSign /\ ~noUuid /\ secret # Undefined
                     /\ req.sign # Base64(HmacSha256(secret, req.body.channelUuid)))
                    => (res = <<403>> /\ ~HandlerRan)

C3_Witness ==
    /\ variant = "autoreply" /\ Done /\ SignatureChecked
    /\ req.sign = Undefined /\ req.body.channelUuid = Undefined
    /\ res = <<403>>

\* C4: in the HMAC scheme, for every secret and every channel uuid, the
\* verifier lets through the header equal to base64(HMAC-SHA256(secret, uuid))
\* and answers 403 to every other header, one-bit mutations of it included.
C4_HmacAcceptsExactlyExpected ==
    (variant = "autoreply" /\ Done /\ SignatureChecked
       /\ secret # Undefined
       /\ req.sign \notin {Undefined, <<>>}
       /\ req.body.channelUuid \notin {Undefined, <<>>})
        => IF req.sign = Base64(HmacSha256(secret, req.body.channelUuid))
           THEN HandlerRan /\ res = <<200>>
           ELSE ~HandlerRan /\ res = <<403>>

\* A one-bit mutation of the expected signature 'AA==' was answered 403.
C4_Witness ==
    /\ variant = "autoreply" /\ Done /\ SignatureChecked
    /\ secret = Str("k1") /\ req.body.channelUuid = Str("u1")
    /\ ExpectedSignature(secret, req.body.channelUuid) = Str("AA==")
    /\ req.sign = Str("AC==")
    /\ res = <<403>>

\* The current request was answered by ipAllowlist or verifyConnexeaseSignature.
Rejected == Done /\ Len(res) > 0 /\ res[1] \in {403, 400} /\ IpChecked

\* Request n has left something behind: a stored message, a broadcast frame,
\* or a handler waiting for the knowledge base, the AI provider, the token or
\* the reply POST.
HasEffect(n) ==
    \/ \E t \in tasks : t.rid = n
    \/ \E i \in 1..Len(broadcasts) : broadcasts[i].rid = n
    \/ \E i \in 1..Len(conversations) :
         \E j \in 1..Len(conversations[i].messages) :
            conversations[i].messages[j].rid = n

C5_RejectedState ==
    /\ Rejected => (res \in {<<403>>, <<400>>} /\ ~HandlerRan /\ ~HasEffect(rid))
    /\ \A i \in 1..Len(checks) :
         checks[i] = "sig" => \E j \in 1..(i - 1) : checks[j] = "ip"
    /\ (IpChecked /\ FirstIp(req) # allowedIp) => (~SignatureChecked /\ stage = "done")

C5_Step ==
    /\ stage \in {"log", "ip", "sig"}
         => UNCHANGED << conversations, broadcasts, tasks, connexeaseToken, tokenExpiresAt >>
    /\ \A t \in tasks' \ tasks :
         (\E u \in tasks : u.rid = t.rid) \/ (t.rid = rid /\ HandlerRan)
    /\ conversations' # conversations => HandlerRan
    /\ broadcasts' # broadcasts =>
         LET f == broadcasts'[Len(broadcasts')] IN
         (f.rid = rid /\ HandlerRan) \/ (\E u \in tasks : u.rid = f.rid)
    /\ C5_RejectedState'

\* C5: a request answered by the IP check or by the signature check is
\* finished: the middlewares change neither the store, the broadcasts, the
\* suspended handlers nor the token cache; a stored message, a frame or a
\* suspended handler only ever comes from a request whose handler ran; the IP
\* check runs before the signature check, which is not evaluated for a request
\* the IP check rejected.
C5_RejectionIsTerminal == [][C5_Step]_vars

\* The second request was rejected by the IP check; the first one's message
\* is still the only one stored.
C5_Witness ==
    /\ Rejected /\ rid = 2 /\ FirstIp(req) # allowedIp /\ res = <<403>>
    /\ Len(conversations) = 1 /\ Len(conversations[1].messages) = 1

\* The current request comes from the allowed address and carries the
\* signature its deployment asks for.
Authentic ==
    /\ FirstIp(req) = allowedIp
    /\ IF variant = "assist"
       THEN req.sign = secret
       ELSE /\ req.sign \notin {Undefined, <<>>}
            /\ req.body.channelUuid \notin {Undefined, <<>>}
            /\ secret # Undefined
            /\ req.sign = Base64(HmacSha256(secret, req.body.channelUuid))

\* The current request satisfies both checks of its deployment and the
\* signature middleware has run for it.
PassedBothChecks == SignatureChecked /\ Authentic

\* C6: a request that passes both checks is answered exactly once, with 200,
\* whatever its hook and payload and whatever happens afterwards (event
\* dropped, handler exception, knowledge-base, AI, token or send failure).
C6_ExactlyOne200 ==
    /\ (PassedBothChecks /\ Done) => res = <<200>>
    /\ \A t \in tasks : t.res = <<200>>

\* A request without payload passed both checks: its handler threw after the
\* acknowledgement.
C6_Witness ==
    /\ PassedBothChecks /\ Done /\ res = <<200>>
    /\ ~req.body.hasPayload /\ rid \in rejections

\* C7: the 200 is sent before the AI provider is called and before any reply
\* is posted: every handler waiting for the knowledge base, the provider, the
\* token or the reply POST belongs to a request that was already answered 200,
\* and the answer is on its way when the pipeline of the request starts.
C7_AckBeforeReplyPipeline ==
    /\ \A t \in tasks : Len(t.res) > 0 /\ t.res[1] = 200
    /\ stage = "body" => res = <<200>>

\* The provider call of an acknowledged request is still in flight after the
\* chain has returned.
C7_Witness ==
    /\ Quiet
    /\ \E t \in tasks : t.pc = "ai" /\ t.res = <<200>>

\* C8: a call of getConnexeaseToken returns the cached token without a
\* credential request exactly when a token is cached and the time is strictly
\* before tokenExpiresAt; every other call issues the credential request.
C8_CacheHitIff ==
    [][\A c \in Callers :
         (calls[c].pc = "idle" /\ calls'[c].pc # "idle")
           => IF connexeaseToken # Undefined /\ now < tokenExpiresAt
              THEN /\ calls'[c].pc = "returned" /\ calls'[c].hit
                   /\ calls'[c].result = connexeaseToken
              ELSE calls'[c].pc = "fetching" /\ ~calls'[c].hit]_vars

\* A call one millisecond before the expiry returned the cached token.
C8_Witness ==
    \E c \in Callers :
       /\ calls[c].pc = "returned" /\ calls[c].hit
       /\ calls[c].at = tokenExpiresAt - 1
       /\ calls[c].result \in Tokens

\* C9: with T the time of the latest successful fetch, tokenExpiresAt is
\* T + 23.5 h; a call before that (T + 23 h) returns the token of that
\* fetch without a request, a call at or after it (T + 23.5 h, T + 24 h)
\* issues a new credential request.
C9_ExpiryAfter23h30 ==
    [][/\ fetched'[1] # NullDate
            => /\ tokenExpiresAt' = fetched'[1] + 47 * HalfHourMs
               /\ connexeaseToken' = fetched'[2]
       /\ \A c \in Callers :
            (calls[c].pc = "idle" /\ calls'[c].pc # "idle" /\ fetched[1] # NullDate)
              => IF now < fetched[1] + 47 * HalfHourMs
                 THEN calls'[c].hit /\ calls'[c].result = fetched[2]
                 ELSE calls'[c].pc = "fetching"]_vars

\* One call at T + 23 h was served from the cache, another at T + 24 h has
\* issued a credential request.
C9_Witness ==
    \E a, b \in Callers :
       /\ fetched[1] # NullDate
       /\ calls[a].pc = "returned" /\ calls[a].hit
       /\ calls[a].at = fetched[1] + 46 * HalfHourMs
       /\ calls[b].pc = "fetching"
       /\ calls[b].at = fetched[1] + 48 * HalfHourMs

\* C10: when the credential request fails, getConnexeaseToken returns null
\* and the cached token and tokenExpiresAt stay as they were.
C10_FailureKeepsCache ==
    [][\A c \in Callers :
         CredentialFailed(c)
           => /\ calls'[c].pc = "returned" /\ calls'[c].result = Undefined
              /\ connexeaseToken' = connexeaseToken
              /\ tokenExpiresAt' = tokenExpiresAt]_vars

\* A credential request failed while a token of an earlier fetch was cached.
C10_Witness ==
    \E c \in Callers :
       /\ calls[c].pc = "returned" /\ ~calls[c].hit /\ calls[c].result = Undefined
       /\ connexeaseToken \in Tokens
       /\ tokenExpiresAt = fetched[1] + TokenTtlMs

\* The current request is an authenticated event of the given hook with a payload.
Authenticated(hook) ==
    PassedBothChecks /\ req.body.hook = hook /\ req.body.hasPayload

\* The store holds message m in the conversation with the given id.
Stored(id, m) ==
    \E i \in 1..Len(conversations) :
       /\ conversations[i].id = id
       /\ \E j \in 1..Len(conversations[i].messages) : conversations[i].messages[j] = m

\* The message index.js makes of the current request with the given content.
CustomerMessage(content) == [sender |-> "customer", content |-> content, rid |-> rid]

\* C11 (as stated): an authenticated message.created event with a customer,
\* non-empty content and conversationId c is stored as a customer message
\* with that content in conversation c.  Violated: payload.conversationId is
\* never read.
C11_StoredUnderConversationId ==
    (variant = "assist" /\ Done /\ Authenticated("message.created")
       /\ Truthy(req.body.customer) /\ Truthy(req.body.content)
       /\ Truthy(req.body.conversationId))
        => Stored(req.body.conversationId, CustomerMessage(req.body.content))

\* C11 (amended): an authenticated message.created event with a customer and
\* non-empty content is stored as a customer message with content
\* payload.content in the conversation whose id is payload.conversation_uuid.
C11_StoredUnderConversationUuid ==
    (variant = "assist" /\ Done /\ Authenticated("message.created")
       /\ Truthy(req.body.customer) /\ Truthy(req.body.content))
        => Stored(req.body.conversation_uuid, CustomerMessage(req.body.content))

\* Customer Ada's "Hello" with conversation_uuid c1 is in conversation c1.
C11_Witness ==
    /\ variant = "assist" /\ Done /\ Authenticated("message.created")
    /\ req.body.customer = Str("Ada") /\ req.body.content = Str("Hello")
    /\ req.body.conversation_uuid = Str("c1")
    /\ Stored(Str("c1"), CustomerMessage(Str("Hello")))

\* The handler step of the current request drops the event: it changes
\* neither the store nor the broadcasts nor the suspended handlers, and the
\* request leaves nothing behind.
Dropped ==
    /\ UNCHANGED << conversations, broadcasts, tasks >>
    /\ stage' = "done"
    /\ ~HasEffect(rid)'

\* C12: an authenticated message.created event without a customer is
\* dropped: nothing is stored, no conversation is created, nothing is
\* broadcast, no AI call is started and no reply is sent.
C12_NoCustomerDropped ==
    [][(stage = "body" /\ Authenticated("message.created")
          /\ ~Truthy(req.body.customer)) => Dropped]_vars

\* A message with content and without customer was acknowledged and dropped.
C12_Witness ==
    /\ Done /\ Authenticated("message.created")
    /\ req.body.customer = Undefined /\ req.body.agent = Undefined
    /\ req.body.content = Str("Hello")
    /\ res = <<200>> /\ ~HasEffect(rid)

\* A handler of the current request waits for the reply pipeline, for the
\* given conversation and user message.
Pipelined(id, text) ==
    \E t \in tasks : t.rid = rid /\ t.conversationId = id /\ t.text = text

\* C13: for an authenticated conversation.created event the content is
\* payload.messages.content and the conversation id is payload.uuid: with a
\* content the message goes to the reply pipeline under that id and index.js
\* stores it in that conversation; with payload.messages absent or its
\* content empty the event is dropped (no store change, broadcast or AI call).
C13_ConversationCreated ==
    [][(stage = "body" /\ Authenticated("conversation.created"))
         => /\ ~Truthy(req.body.msgContent) => Dropped
            /\ (Truthy(req.body.msgContent) /\ Trim(req.body.msgContent) # <<>>)
                 => /\ Pipelined(req.body.uuid, req.body.msgContent)'
                    /\ variant = "assist"
                         => Stored(req.body.uuid, CustomerMessage(req.body.msgContent))']_vars

\* The first message "Hi" of conversation c2 is stored in conversation c2.
C13_Witness ==
    /\ variant = "assist" /\ Done /\ Authenticated("conversation.created")
    /\ req.body.msgContent = Str("Hi") /\ req.body.uuid = Str("c2")
    /\ Stored(Str("c2"), CustomerMessage(Str("Hi")))
    /\ Pipelined(Str("c2"), Str("Hi"))

\* C14: an authenticated event of a hook other than message.created and
\* conversation.created is acknowledged with 200 and dropped: the store is
\* unchanged, nothing is broadcast, no AI call is started, no reply is sent
\* (and the handler does not throw), whatever its payload.
C14_OtherHookDropped ==
    [][(stage = "body" /\ PassedBothChecks
          /\ req.body.hook \notin {"message.created", "conversation.created"})
         => /\ Dropped
            /\ res = <<200>> /\ res' = <<200>>
            /\ rejections' = rejections]_vars

\* A conversation.updated event that carries the fields of a customer
\* message was acknowledged and dropped.
C14_Witness ==
    /\ Done /\ PassedBothChecks
    /\ req.body.hook = "conversation.updated"
    /\ req.body.customer = Str("Ada") /\ req.body.content = Str("Hello")
    /\ res = <<200>> /\ ~HasEffect(rid)

\* C15: every stored message has a content that is not empty after trimming,
\* and no white-space-only content is broadcast or handed to the AI provider.
\* Violated in index.js: the handler tests !message.content without trimming,
\* so a content of blanks is stored, broadcast and sent to the provider.
C15_StoredContentNotBlank ==
    /\ \A i \in 1..Len(conversations) :
         \A j \in 1..Len(conversations[i].messages) :
            Trim(conversations[i].messages[j].content) # <<>>
    /\ \A i \in 1..Len(broadcasts) :
         broadcasts[i].type = "customerMessage" => Trim(broadcasts[i].text) # <<>>
    /\ \A t \in tasks : t.pc \in {"kb", "ai"} => Trim(t.text) # <<>>

\* C16: for every authentic webhook body, a body without payload or without
\* optional fields included, the event is normalized without an exception:
\* the handler promise does not reject and no middleware throws (no 500).
\* Violated: index.js reads payload.customer / payload.uuid and part_001's
\* logMessageForDashboard reads payload.content of an undefined payload.
C16_NormalizationNeverRaises ==
    (Done /\ Authentic)
        => /\ rid \notin rejections
           /\ \A i \in 1..Len(res) : res[i] # 500

\* The messages the store holds for a conversation id (none when it has no
\* such conversation).
MessagesOf(store, id) ==
    IF \E i \in 1..Len(store) : store[i].id = id
    THEN store[CHOOSE i \in 1..Len(store) : store[i].id = id].messages
    ELSE <<>>

\* The current request is an accepted customer event of index.js.
AcceptedEvent ==
    /\ PassedBothChecks /\ req.body.hasPayload
    /\ \/ /\ req.body.hook = "message.created"
          /\ Truthy(req.body.customer) /\ Truthy(req.body.content)
       \/ /\ req.body.hook = "conversation.created"
          /\ Truthy(req.body.msgContent)

\* Its conversation id and its content.
AcceptedId ==
    IF req.body.hook = "message.created" THEN req.body.conversation_uuid ELSE req.body.uuid

AcceptedContent ==
    IF req.body.hook = "message.created" THEN req.body.content ELSE req.body.msgContent

\* C17: there is no deduplication: every delivery of an accepted payload
\* appends exactly one message to its conversation, also when the same
\* payload was delivered before, and leaves the other conversations alone;
\* so n deliveries leave n messages.
C17_EveryDeliveryAppends ==
    [][(variant = "assist" /\ stage = "body" /\ AcceptedEvent)
         => /\ MessagesOf(conversations', AcceptedId) =
                 Append(MessagesOf(conversations, AcceptedId),
                        CustomerMessage(AcceptedContent))
            /\ \A i \in 1..Len(conversations) :
                 conversations[i].id # AcceptedId
                   => conversations'[i] = conversations[i]]_vars

\* The same payload was delivered twice: its conversation holds two messages
\* with the same content.
C17_Witness ==
    /\ variant = "assist" /\ Done /\ rid = 2
    /\ Len(MessagesOf(conversations, Str("c1"))) = 2
    /\ MessagesOf(conversations, Str("c1"))[1].content = Str("Hello")
    /\ MessagesOf(conversations, Str("c1"))[2].content = Str("Hello")

\* A step in which broadcast() is called (a frame is handed to it).
Broadcasting == Len(broadcasts') = Len(broadcasts) + 1

\* C18: a broadcast while no subscriber is connected completes without raising
\* and without waiting: no socket is touched, no handler rejects, and the
\* webhook processing goes on in the same step (the handler that broadcast the
\* customer's message has issued its suggestion request and the chain is done).
C18_BroadcastToNobody ==
    [][(Broadcasting /\ OpenClients(clients) = {})
         => /\ rejections' = rejections
            /\ clients' = clients
            /\ stage = "body"
                 => /\ stage' = "done"
                    /\ \E t \in tasks' : t.rid = rid /\ t \notin tasks]_vars

C18_Witness ==
    /\ clients = <<>> /\ Done /\ rejections = {}
    /\ Len(broadcasts) = 1 /\ broadcasts[1].type = "customerMessage"
    /\ \E t \in tasks : t.rid = rid

\* Frame n was sent to socket c.
Received(c, n) == \E j \in 1..Len(c.inbox) : c.inbox[j] = n

\* C19 (as stated): a disconnected subscriber or one whose send fails never
\* makes broadcast raise (no handler whose event was broadcast rejects) and
\* never keeps the event from another open subscriber (a socket that is open
\* has received every frame broadcast since it connected).  Violated: nothing
\* catches what client.send throws.
C19_BroadcastReachesEveryOpenSubscriber ==
    /\ \A n \in rejections :
          ~\E k \in 1..Len(broadcasts) : broadcasts[k].rid = n
    /\ \A i \in OpenClients(clients) :
          \A n \in (clients[i].since + 1)..Len(broadcasts) : Received(clients[i], n)

\* C20: the push channel has no backlog and no replay: a subscriber never
\* receives a frame that was broadcast before it connected, and a customer
\* message it missed that way is returned by the conversation query.
C20_NoReplay ==
    \A i \in 1..Len(clients) :
       /\ \A j \in 1..Len(clients[i].inbox) : clients[i].inbox[j] > clients[i].since
       /\ \A n \in 1..clients[i].since :
             broadcasts[n].type = "customerMessage"
               => LET q == ConversationQuery(conversations, broadcasts[n].conversationId)
                  IN  /\ q.status = 200
                      /\ \E j \in 1..Len(q.messages) :
                            /\ q.messages[j].content = broadcasts[n].text
                            /\ q.messages[j].rid = broadcasts[n].rid

C20_Witness ==
    /\ Len(broadcasts) = 2
    /\ \E i \in OpenClients(clients) :
          clients[i].since = 1 /\ clients[i].inbox = <<2>>

\* The texts the provider can answer with, and the fixed text of the running
\* deployment's getAIResponse.
ProviderTexts == AiOutputs \ { <<>> }

Fallback == IF variant = "assist" THEN AssistFallback ELSE AutoReplyApology

\* What getAIResponse returned in a step that settles the provider call of t:
\* index.js broadcasts it, part_001 hands it to sendConnexeaseReply.
Returned(t) ==
    IF variant = "assist"
    THEN broadcasts'[Len(broadcasts')].text
    ELSE (CHOOSE u \in tasks' \ tasks : u.rid = t.rid).text

\* C21 (as stated): getAIResponse never raises when the provider fails, and
\* what it returns is the provider's text or, for a failure or an empty
\* response, the fixed fallback string.  Violated: part_001 returns the empty
\* text of an empty response.
C21_ProviderFailureGivesFallback ==
    [][\A t \in tasks :
         (t.pc = "ai" /\ t \notin tasks')
           => /\ rejections' = rejections
              /\ Returned(t) \in ProviderTexts \cup { Fallback }]_vars

\* The lazy read of task t has settled in this step and the provider request
\* was not issued: fs.readFile failed.
LazyReadFailed(t) ==
    /\ t \in tasks /\ t.pc = "kb" /\ t \notin tasks'
    /\ ~\E u \in tasks' : u.rid = t.rid /\ u.pc = "ai"

\* The caller of getAIResponse goes on with the fallback string for task t.
GoesOnWithFallback(t) ==
    IF variant = "assist"
    THEN /\ Len(broadcasts') = Len(broadcasts) + 1
         /\ broadcasts'[Len(broadcasts')].text = Fallback
    ELSE \E u \in tasks' : u.rid = t.rid /\ u.text = Fallback

\* C22 (as stated): when the knowledge base could not be read at start-up and
\* the lazy read inside getAIResponse fails too, getAIResponse does not raise:
\* no handler rejects and its caller goes on with the fallback string.
\* Violated: fs.readFile is awaited outside the try of getAIResponse.
C22_KnowledgeFailureGivesFallback ==
    [][\A t \in tasks :
         (startup = "failed" /\ LazyReadFailed(t))
           => /\ rejections' = rejections
              /\ GoesOnWithFallback(t)]_vars

\* The reply POST issued for task t in this step, if any.
ReplyPosts(t) == { u \in tasks' : u.rid = t.rid /\ u.pc = "post" }

\* C23: part_001: when the credential request of sendConnexeaseReply fails, no
\* reply POST is issued and nothing is raised, and the request was acknowledged
\* with 200.  Each step that settles the credential request of a task leaves
\* the rejections alone and belongs to an acknowledged request; it issues a
\* reply POST only with the token the response of this step carried, and
\* without one it ends the task and leaves the cache as it was.
C23_NoTokenNoReply ==
    [][\A t \in tasks :
         (t.pc = "token" /\ t \notin tasks')
           => /\ rejections' = rejections
              /\ t.res = <<200>>
              /\ \A u \in ReplyPosts(t) :
                    /\ Truthy(u.token)
                    /\ connexeaseToken' = u.token
                    /\ fetched' = << now, u.token >>
              /\ ReplyPosts(t) = {}
                    => /\ tasks' = tasks \ {t}
                       /\ UNCHANGED << connexeaseToken, tokenExpiresAt >>]_vars

\* The first request was a verified customer message; its pipeline has ended
\* without a rejection and without a token in the cache: the credential
\* request failed.
C23_Witness ==
    /\ variant = "autoreply" /\ Quiet /\ rid = 1
    /\ Len(receivedMessages) = 1
    /\ receivedMessages[1].signature_ok = "Verified"
    /\ receivedMessages[1].from = Str("Ada")
    /\ receivedMessages[1].content = Str("Hello")
    /\ tasks = {} /\ rejections = {}
    /\ ~Truthy(connexeaseToken)

\* The ids a dashboard asks for: the two conversations of the traffic and one
\* that no event names.
QueryIds == { Str("c1"), Str("c2"), Str("c3") }

\* The accepted message events of conversation id so far, in order of arrival
\* (the handler hands one customerMessage frame to broadcast for each).
AcceptedFor(id) ==
    SelectSeq(broadcasts,
              LAMBDA f : f.type = "customerMessage" /\ f.conversationId = id)

\* C24: after any sequence of webhook events GET /api/conversations/:id
\* answers 404 exactly when no accepted message event of that id was stored,
\* and otherwise 200 with every message appended to it, in append order.
C24_QueryAnswers ==
    \A id \in QueryIds :
       LET q == ConversationQuery(conversations, id)
           a == AcceptedFor(id)
       IN  /\ q.status = 404 <=> Len(a) = 0
           /\ q.status # 404
                => /\ q.status = 200
                   /\ Len(q.messages) = Len(a)
                   /\ \A j \in 1..Len(a) :
                         q.messages[j] = [sender |-> "customer",
                                          content |-> a[j].text, rid |-> a[j].rid]

C24_Witness ==
    /\ ConversationQuery(conversations, Str("c1")).status = 200
    /\ Len(ConversationQuery(conversations, Str("c1")).messages) = 1
    /\ ConversationQuery(conversations, Str("c2")).status = 200
    /\ ConversationQuery(conversations, Str("c3")).status = 404

\* The labels part_001 writes for a request that passed the address check.
PassedIpLabels ==
    { "Pending", "IP OK", "Verified",
      "FAILED (Missing)", "FAILED (Bad Payload)", "FAILED (Mismatch)" }

\* Log entry e records the authentication outcome of the current request.
RecordsOwnOutcome(e) ==
    IF ~IpAllowed(req) THEN e.signature_ok \notin PassedIpLabels
    ELSE IF HmacVerdict(req, secret) = "next" THEN e.signature_ok = "Verified"
    ELSE e.signature_ok = VerdictLabel(HmacVerdict(req, secret))

\* C25 (as stated): part_001: once the chain is done with a request, the
\* diagnostic log holds an entry of that request whose status is the request's
\* own authentication outcome (IP rejected, signature missing, bad payload,
\* mismatch or verified), whatever its body.  Violated: only message events
\* with content get an entry, the statuses go to the newest entry whoever made
\* it, and ipAllowlist writes none.
C25_LogRecordsOwnOutcome ==
    (variant = "autoreply" /\ Done /\ HmacVerdict(req, secret) # "throw")
      => \E i \in 1..Len(receivedMessages) :
            /\ receivedMessages[i].rid = rid
            /\ RecordsOwnOutcome(receivedMessages[i])

\* The callers whose credential request is in flight.
InFlight == { c \in Callers : calls[c].pc = "fetching" }

\* C26 (as stated): concurrent getConnexeaseToken callers that find no valid
\* cached token share one credential request: never are two in flight at
\* once.  Violated: every such caller posts its own request.
C26_SingleInFlightRequest == Cardinality(InFlight) <= 1

\* C27: under every interleaving of calls and of successful and failed
\* credential responses the cache is never corrupted: the token and its expiry
\* are both unset, or both are those of the latest successful response (the
\* expiry being its arrival time + 23.5 h).
C27_CacheNeverCorrupted ==
    \/ /\ connexeaseToken = Undefined
       /\ tokenExpiresAt = NullDate
       /\ fetched = << NullDate, Undefined >>
    \/ /\ fetched[1] # NullDate
       /\ Truthy(connexeaseToken)
       /\ connexeaseToken = fetched[2]
       /\ tokenExpiresAt = fetched[1] + TokenTtlMs

\* Two overlapping calls were answered with different tokens, the later
\* response is the one cached, and a request made after it expired has failed.
C27_Witness ==
    /\ calls["a"].pc = "returned" /\ calls["a"].result = Undefined
    /\ ~calls["a"].hit
    /\ calls["a"].at >= tokenExpiresAt
    /\ calls["b"].pc = "returned" /\ calls["b"].result = Str("jwt1")
    /\ connexeaseToken = Str("jwt2")
    /\ fetched[1] = 0

\* Sequence s is the beginning of sequence t.
IsPrefix(s, t) == Len(s) <= Len(t) /\ SubSeq(t, 1, Len(s)) = s

\* This step is the handler of the first accepted event of a conversation id.
FirstAccepted ==
    /\ variant = "assist" /\ stage = "body" /\ AcceptedEvent
    /\ ~HasConversation(conversations, AcceptedId)

\* C28: the conversation store is append-only: no step removes or reorders a
\* conversation or changes its id, every conversation's messages only grow at
\* the end, a conversation is created exactly by the first accepted event of
\* its id (holding that event's message), and no id is held twice.
C28_StoreAppendOnly ==
    [][/\ Len(conversations') >= Len(conversations)
       /\ \A i \in 1..Len(conversations) :
             /\ conversations'[i].id = conversations[i].id
             /\ IsPrefix(conversations[i].messages, conversations'[i].messages)
       /\ Len(conversations') > Len(conversations) <=> FirstAccepted
       /\ FirstAccepted
             => /\ Len(conversations') = Len(conversations) + 1
                /\ conversations'[Len(conversations')].id = AcceptedId
                /\ conversations'[Len(conversations')].messages =
                      << CustomerMessage(AcceptedContent) >>
       /\ \A i, j \in 1..Len(conversations') :
             conversations'[i].id = conversations'[j].id => i = j]_vars

C28_Witness ==
    /\ Done /\ Len(conversations) = 2
    /\ conversations[1].id = Str("c2") /\ Len(conversations[1].messages) = 1
    /\ conversations[2].id = Str("c1") /\ Len(conversations[2].messages) = 1

\* The positions in broadcasts of the frames of one type for request n.
FramesOf(type, n) ==
    { k \in 1..Len(broadcasts) : broadcasts[k].type = type /\ broadcasts[k].rid = n }

\* C29: for every accepted event the message is stored, then its
\* customerMessage frame is broadcast, then the AI call is made, then its
\* aiSuggestion frame is broadcast: every customerMessage frame is of a stored
\* message, a pending AI call belongs to an event whose customerMessage frame
\* was broadcast and whose suggestion was not, and every aiSuggestion frame
\* comes after the customerMessage frame of its event.
C29_StoreNotifySuggestOrder ==
    /\ \A k \in 1..Len(broadcasts) :
          broadcasts[k].type = "customerMessage"
            => Stored(broadcasts[k].conversationId,
                      [sender |-> "customer", content |-> broadcasts[k].text,
                       rid |-> broadcasts[k].rid])
    /\ variant = "assist"
          => \A t \in tasks :
                /\ FramesOf("customerMessage", t.rid) # {}
                /\ FramesOf("aiSuggestion", t.rid) = {}
    /\ \A k \in 1..Len(broadcasts) :
          broadcasts[k].type = "aiSuggestion"
            => /\ \E j \in FramesOf("customerMessage", broadcasts[k].rid) : j < k
               /\ FramesOf("aiSuggestion", broadcasts[k].rid) = {k}

\* Two events, the suggestion of the second broadcast before that of the first.
C29_Witness ==
    /\ Len(broadcasts) = 4
    /\ broadcasts[1].type = "customerMessage" /\ broadcasts[1].rid = 1
    /\ broadcasts[2].type = "customerMessage" /\ broadcasts[2].rid = 2
    /\ broadcasts[3].type = "aiSuggestion" /\ broadcasts[3].rid = 2
    /\ broadcasts[4].type = "aiSuggestion" /\ broadcasts[4].rid = 1

\* The getAIResponse calls that start in this step by reading the file.
StartsReading == { t \in tasks' \ tasks : t.pc = "kb" }

\* C30 (as stated): once a read of the knowledge-base file has succeeded (here
\* the one of the listen callback), no later getAIResponse call reads the file
\* again, whatever the file holds.  Violated: an empty file leaves
\* knowledgeBase falsy, and every call reads it again.
C30_KnowledgeLoadedOnce ==
    [][startup = "loaded" => StartsReading = {}]_vars

\* The HMAC middleware has decided on a request that carries a signature
\* header, under a configured secret.
HmacDecided ==
    /\ variant = "autoreply" /\ SignatureChecked
    /\ Truthy(req.sign) /\ secret # Undefined

\* The HMAC middleware has passed the current request on to the handler.
HmacAccepted == stage = "handler" \/ HandlerRan

\* The HMAC middleware has answered the current request with 400.
Answered400 == \E i \in 1..Len(res) : res[i] = 400

\* C31 (as stated): the signed value is read from payload.channel.uuid: a body
\* that carries the uuid there with a header equal to its HMAC is accepted, and
\* the 400 answer is given exactly when that path is absent.  Violated: the
\* payload is not looked at.
C31_SignedValueInPayload ==
    HmacDecided
      => /\ (/\ Truthy(req.body.payloadChannelUuid)
             /\ req.sign = ExpectedSignature(secret, req.body.payloadChannelUuid))
               => HmacAccepted
         /\ Answered400 <=> ~Truthy(req.body.payloadChannelUuid)

\* C31 (amended): the signed value is read from channel.uuid of the body
\* itself: a body that carries the uuid there with a header equal to its HMAC
\* is accepted whatever its payload holds, and the 400 answer is given exactly
\* when channel.uuid is absent from the body.
C31_SignedValueInBody ==
    HmacDecided
      => /\ (/\ Truthy(req.body.channelUuid)
             /\ req.sign = ExpectedSignature(secret, req.body.channelUuid))
               => HmacAccepted
         /\ Answered400 <=> ~Truthy(req.body.channelUuid)

\* Accepted on the HMAC of the body's channel.uuid although the payload
\* carries another uuid.
C31_Witness ==
    /\ HmacDecided /\ Done /\ HandlerRan
    /\ req.body.channelUuid = Str("u1")
    /\ req.body.payloadChannelUuid = Str("u2")
    /\ req.sign = ExpectedSignature(secret, Str("u1"))
    /\ req.sign # ExpectedSignature(secret, Str("u2"))

\* C32 (as stated): in the shared-secret scheme a request without a signature
\* header that passed the IP check is answered 403 and never reaches the
\* handler, whatever the secret is, also when none is configured.  Violated:
\* with no secret configured the missing header equals the missing secret.
C32_MissingHeaderRejected ==
    (variant = "assist" /\ Done /\ SignatureChecked /\ req.sign = Undefined)
        => (res = <<403>> /\ ~HandlerRan)

\* The requests whose log entry gets another status in this step.
Relabelled ==
    { e.rid : e \in { receivedMessages[i] : i \in 1..Len(receivedMessages) } }
      \cap { n \in 1..rid :
               \E i \in 1..Len(receivedMessages), j \in 1..Len(receivedMessages') :
                  /\ receivedMessages[i].rid = n
                  /\ receivedMessages'[j].rid = n
                  /\ receivedMessages'[j].signature_ok # receivedMessages[i].signature_ok }

\* C33 (as stated): part_001: a status written to receivedMessages[0] while a
\* request is authenticated lands on the entry that request created, never on
\* the entry of an earlier request.  Violated: a request that creates no entry
\* relabels the newest entry there is.
C33_StatusOnOwnEntry ==
    [][Relabelled \subseteq { rid }]_vars

\* C34 (as stated): index.js: every accepted event that was stored and
\* broadcast as a customer message is eventually followed by one aiSuggestion
\* frame of its own, provided the provider call returns or fails; also when
\* the provider fails or the knowledge base cannot be loaded.  Violated: when
\* the lazy read of the knowledge base fails no suggestion is ever broadcast.
C34_SuggestionFollows ==
    \A n \in 1..MaxRequests :
       (variant = "assist" /\ FramesOf("customerMessage", n) # {})
         ~> (Cardinality(FramesOf("aiSuggestion", n)) = 1)

\* C35 (as stated): the aiSuggestion frames of one conversation are broadcast
\* in the order of their events' customerMessage frames (the order of the
\* requests), so the latest suggestion belongs to the latest stored message.
\* Violated: the provider calls of two events settle in either order.
C35_SuggestionsInMessageOrder ==
    \A k, l \in 1..Len(broadcasts) :
       (/\ k < l
        /\ broadcasts[k].type = "aiSuggestion" /\ broadcasts[l].type = "aiSuggestion"
        /\ broadcasts[k].conversationId = broadcasts[l].conversationId)
         => broadcasts[k].rid < broadcasts[l].rid

\* How far the reply pipeline of a handler has come: reading the knowledge
\* base, calling the provider, fetching the token, posting the reply.
Rank(pc) == CASE pc = "kb" -> 1 [] pc = "ai" -> 2 [] pc = "token" -> 3 [] pc = "post" -> 4

\* The current request is a message.created event with an agent or without a
\* customer.
AgentOrNoCustomer ==
    /\ req.body.hook = "message.created" /\ req.body.hasPayload
    /\ Truthy(req.body.agent) \/ ~Truthy(req.body.customer)

\* C36: part_001: an authenticated event causes at most one AI-provider call
\* and at most one reply POST, and none when it is a message.created with an
\* agent or without a customer.  A pipeline starts only in the handler of an
\* authenticated request that has none yet and is no such event; every other
\* pipeline step moves one pipeline forward, so it passes the provider call
\* and the POST once at most; no request ever has two.
C36_AtMostOneReply ==
    [][variant = "autoreply"
         => /\ \A u \in tasks' \ tasks :
                  \/ /\ stage = "body" /\ u.rid = rid
                     /\ PassedBothChecks /\ ~AgentOrNoCustomer
                     /\ u.pc \in {"kb", "ai"}
                     /\ ~\E t \in tasks : t.rid = rid
                  \/ \E t \in tasks \ tasks' :
                        t.rid = u.rid /\ Rank(t.pc) < Rank(u.pc)
            /\ \A u, w \in tasks' : u.rid = w.rid => u = w
            /\ (stage = "body" /\ AgentOrNoCustomer) => tasks' = tasks]_vars

\* An authenticated message with customer, text and agent was handled and
\* nothing was started for it.
C36_Witness ==
    /\ variant = "autoreply" /\ Done /\ HandlerRan /\ PassedBothChecks
    /\ req.body.hook = "message.created"
    /\ req.body.agent = Str("Bot") /\ req.body.customer = Str("Ada")
    /\ req.body.content = Str("Hello")
    /\ tasks = {} /\ rejections = {}

\* The current request's entry is put into the log in this step.
Logs ==
    /\ receivedMessages' # <<>>
    /\ receivedMessages'[1].rid = rid
    /\ receivedMessages = <<>> \/ receivedMessages[1].rid # rid

\* C37: part_001: the diagnostic log holds at most 50 entries, newest first,
\* and they are the most recently logged ones: a new entry goes to the front
\* and moves every other one back by one place, the one at place 50 leaving
\* the log; no other step adds, removes or moves an entry.
C37_LogKeepsNewest50 ==
    [][/\ Len(receivedMessages') <= MaxReceived
       /\ \A i \in 1..(Len(receivedMessages') - 1) :
             receivedMessages'[i].rid > receivedMessages'[i + 1].rid
       /\ IF Logs
          THEN /\ Len(receivedMessages') =
                    IF Len(receivedMessages) < MaxReceived
                    THEN Len(receivedMessages) + 1 ELSE MaxReceived
               /\ \A i \in 2..Len(receivedMessages') :
                     receivedMessages'[i] = receivedMessages[i - 1]
          ELSE /\ Len(receivedMessages') = Len(receivedMessages)
               /\ \A i \in 1..Len(receivedMessages) :
                     receivedMessages'[i].rid = receivedMessages[i].rid]_vars

\* The 51st entry has been logged and the oldest one has left the log.
C37_Witness ==
    /\ Len(receivedMessages) = MaxReceived
    /\ receivedMessages[1].rid = MaxReceived + 1
    /\ receivedMessages[MaxReceived].rid = 2

====
